---- MODULE Spec2Model ----
(***************************************************************************)
(* Model of the `utils` crate: the FromEnv loading protocol (src/src/lib.rs)*)
(* and the load method generated by derive(FromEnv) (src/derive/src/lib.rs).*)
(*                                                                         *)
(* Text is a sequence of one-character strings, so that parsing, upper-    *)
(* casing and key joining are computed character by character as the code  *)
(* does.  Every loader returns a record [res, log]: the Result the Rust    *)
(* function returns, and the ordered list of the environment lookups and   *)
(* file reads it performed.                                                *)
(***************************************************************************)
EXTENDS Integers, Sequences, FiniteSets, TLC

VARIABLES env, fs, pc, call, out

vars == <<env, fs, pc, call, out>>

\* ------------------------------------------------------------------ bounds
\* Depth of wrapper nesting (Option<..>, Masked<..>) in the types loaded.
MaxWrap == 2
\* Depth of the chain of nested composites Deep(n).
MaxDepth == 3

\* ------------------------------------------------------------- Result, errors
Ok(v) == <<"Ok", v>>
Err(e) == <<"Err", e>>
IsOk(r) == r[1] = "Ok"
IsErr(r) == r[1] = "Err"

\* enum EnvErrorType
NotPresent == <<"NotPresent">>
NotUnicode(os) == <<"NotUnicode", os>>
InvalidFormat == <<"InvalidFormat">>
Other(msg) == <<"Other", msg>>

\* struct EnvError { var, ty }
EnvError(var, ty) == [var |-> var, ty |-> ty]

\* std::env::VarError, as std::env::var returns it
VarNotPresent == <<"VarError::NotPresent">>
VarNotUnicode(os) == <<"VarError::NotUnicode", os>>

\* impl From<VarError> for EnvErrorType; an EnvErrorType converts to itself
Into(err) ==
    IF err[1] = "VarError::NotPresent" THEN NotPresent
    ELSE IF err[1] = "VarError::NotUnicode" THEN NotUnicode(err[2])
    ELSE err

\* EnvError::convert: res.map_err(|err| EnvError { var: ident, ty: err.into() })
convert(res, ident) ==
    IF IsOk(res) THEN res ELSE Err(EnvError(ident, Into(res[2])))

\* ------------------------------------------------------------ collaborators
\* The log entries: one per std::env::var call and per std::fs::read_to_string.
Lookup(key) == <<"var", key>>
Read(path) == <<"read", path>>

\* std::env::var(key) on environment e (a function from the set variables)
env_var(e, key) ==
    IF key \notin DOMAIN e THEN Err(VarNotPresent)
    ELSE IF e[key][1] = "raw" THEN Err(VarNotUnicode(e[key][2]))
    ELSE Ok(e[key][2])

NoSuchFile == "No such file or directory (os error 2)"
NotUtf8 == "stream did not contain valid UTF-8"

\* std::fs::read_to_string(path) on file system f; the error is err.to_string()
read_to_string(f, path) ==
    IF path \notin DOMAIN f THEN Err(NoSuchFile)
    ELSE IF f[path][1] = "binary" THEN Err(NotUtf8)
    ELSE Ok(f[path][2])

\* format!("{}_FILE", ident)
FileKey(ident) == ident \o <<"_", "F", "I", "L", "E">>

\* --------------------------------------------------------------- the types
Scalar(n) == <<n>>
Option(t) == <<"Option", t>>
Masked(t) == <<"Masked", t>>
Struct(n) == <<"Struct", n>>

IntTypes == {"i8", "i16", "i32", "i64", "isize", "u8", "u16", "u32", "u64", "usize"}
FloatTypes == {"f32", "f64"}

IsSigned(n) == n \in {"i8", "i16", "i32", "i64", "isize"}

Bits(n) ==
    CASE n \in {"i8", "u8"} -> 8
      [] n \in {"i16", "u16"} -> 16
      [] n \in {"i32", "u32"} -> 32
      [] OTHER -> 64

\* ----------------------------------------------------------------- characters
LowerChars == <<"a", "b", "c", "d", "e", "f", "g", "h", "i", "j", "k", "l", "m",
                "n", "o", "p", "q", "r", "s", "t", "u", "v", "w", "x", "y", "z">>
UpperChars == <<"A", "B", "C", "D", "E", "F", "G", "H", "I", "J", "K", "L", "M",
                "N", "O", "P", "Q", "R", "S", "T", "U", "V", "W", "X", "Y", "Z">>
DigitChars == <<"0", "1", "2", "3", "4", "5", "6", "7", "8", "9">>

IsDigit(c) == \E i \in 1..Len(DigitChars) : DigitChars[i] = c
DigitVal(c) == (CHOOSE i \in 1..Len(DigitChars) : DigitChars[i] = c) - 1

\* char::to_uppercase: one character to the sequence of characters it upper-cases
\* to.  "sz" stands for U+00DF, whose upper case is the two characters "SS".
to_uppercase(c) ==
    IF \E i \in 1..Len(LowerChars) : LowerChars[i] = c
    THEN <<UpperChars[CHOOSE i \in 1..Len(LowerChars) : LowerChars[i] = c]>>
    ELSE IF c = "sz" THEN <<"S", "S">>
    ELSE <<c>>

\* u8::to_ascii_lowercase, used by the float parser for inf / nan / e
to_ascii_lowercase(c) ==
    IF \E i \in 1..Len(UpperChars) : UpperChars[i] = c
    THEN LowerChars[CHOOSE i \in 1..Len(UpperChars) : UpperChars[i] = c]
    ELSE c

AllDigits(s) == \A i \in 1..Len(s) : IsDigit(s[i])

RECURSIVE DigitsValue(_)
DigitsValue(s) ==
    IF s = <<>> THEN 0
    ELSE DigitsValue(SubSeq(s, 1, Len(s) - 1)) * 10 + DigitVal(s[Len(s)])

\* ------------------------------------------------------- str::parse, per type
\* Whether n fits the integer type.  TLC's integers are 32 bits wide, so every
\* magnitude the model can compute fits a type of 32 bits or more.
InRange(n, ty) ==
    IF Bits(ty) >= 32 THEN IsSigned(ty) \/ n >= 0
    ELSE IF IsSigned(ty) THEN -(2 ^ (Bits(ty) - 1)) <= n /\ n <= 2 ^ (Bits(ty) - 1) - 1
    ELSE 0 <= n /\ n <= 2 ^ Bits(ty) - 1

\* <integer>::from_str: an optional "+" (or "-" for a signed type), then one or
\* more digits, the value within the type's range.
ParseInt(ty, s) ==
    IF s = <<>> THEN Err(InvalidFormat)
    ELSE LET neg == IsSigned(ty) /\ s[1] = "-"
             body == IF s[1] = "+" \/ neg THEN Tail(s) ELSE s
             n == IF neg THEN -DigitsValue(body) ELSE DigitsValue(body)
         IN  IF body = <<>> \/ ~AllDigits(body) THEN Err(InvalidFormat)
             ELSE IF ~InRange(n, ty) THEN Err(InvalidFormat)
             ELSE Ok(<<"int", n>>)

\* bool::from_str: exactly "true" or "false"
ParseBool(s) ==
    IF s = <<"t", "r", "u", "e">> THEN Ok(<<"bool", TRUE>>)
    ELSE IF s = <<"f", "a", "l", "s", "e">> THEN Ok(<<"bool", FALSE>>)
    ELSE Err(InvalidFormat)

\* String::from_str: infallible, the text itself
ParseString(s) == Ok(<<"str", s>>)

\* The first index of s holding a character of set cs, 0 when there is none.
FirstIdx(s, cs) ==
    IF \E i \in 1..Len(s) : s[i] \in cs
    THEN CHOOSE i \in 1..Len(s) : s[i] \in cs /\ \A j \in 1..(i - 1) : s[j] \notin cs
    ELSE 0

RECURSIVE Normal(_, _)
\* m * 10^e with the trailing zeros of m moved into e
Normal(m, e) ==
    IF m = 0 THEN <<0, 0>>
    ELSE IF m % 10 = 0 THEN Normal(m \div 10, e + 1)
    ELSE <<m, e>>

\* <float>::from_str:  Sign? ( 'inf' | 'infinity' | 'nan' | Number ), with
\* Number ::= ( Digit+ | Digit+ '.' Digit* | Digit* '.' Digit+ ) Exp? and
\* Exp ::= 'e' Sign? Digit+.  The value is the decimal the text denotes.
ParseFloat(s) ==
    LET signed == s # <<>> /\ s[1] \in {"+", "-"}
        neg == signed /\ s[1] = "-"
        body == IF signed THEN Tail(s) ELSE s
        low == [i \in 1..Len(body) |-> to_ascii_lowercase(body[i])]
        ePos == FirstIdx(low, {"e"})
        mant == IF ePos = 0 THEN body ELSE SubSeq(body, 1, ePos - 1)
        exp == IF ePos = 0 THEN <<>> ELSE SubSeq(body, ePos + 1, Len(body))
        expSigned == exp # <<>> /\ exp[1] \in {"+", "-"}
        expDigits == IF expSigned THEN Tail(exp) ELSE exp
        dot == FirstIdx(mant, {"."})
        int == IF dot = 0 THEN mant ELSE SubSeq(mant, 1, dot - 1)
        frac == IF dot = 0 THEN <<>> ELSE SubSeq(mant, dot + 1, Len(mant))
        expOk == ePos = 0 \/ (expDigits # <<>> /\ AllDigits(expDigits))
        mantOk == AllDigits(int) /\ AllDigits(frac) /\ Len(int) + Len(frac) >= 1
        expVal == IF ePos = 0 THEN 0
                  ELSE IF expSigned /\ exp[1] = "-" THEN -DigitsValue(expDigits)
                  ELSE DigitsValue(expDigits)
        m == DigitsValue(int \o frac)
        v == Normal(IF neg THEN -m ELSE m, expVal - Len(frac))
    IN  IF low = <<"i", "n", "f">> \/ low = <<"i", "n", "f", "i", "n", "i", "t", "y">>
        THEN Ok(<<"inf", neg>>)
        ELSE IF low = <<"n", "a", "n">> THEN Ok(<<"nan">>)
        ELSE IF mantOk /\ expOk THEN Ok(<<"float", v[1], v[2]>>)
        ELSE Err(InvalidFormat)

\* s without its trailing line breaks
TrimEnd(s) ==
    LET n == IF \E i \in 1..Len(s) : s[i] # "\n"
             THEN CHOOSE i \in 1..Len(s) : s[i] # "\n" /\ \A j \in (i + 1)..Len(s) : s[j] = "\n"
             ELSE 0
    IN  SubSeq(s, 1, n)

\* Mutant of parse: value.trim_end().parse()
parse_trimmed(n, s) ==
    IF n \in IntTypes THEN ParseInt(n, TrimEnd(s))
    ELSE IF n \in FloatTypes THEN ParseFloat(TrimEnd(s))
    ELSE IF n = "bool" THEN ParseBool(TrimEnd(s))
    ELSE ParseString(TrimEnd(s))

\* impl_from_env!: value.parse().map_err(|_| EnvErrorType::InvalidFormat)
parse(n, s) ==
    IF n \in IntTypes THEN ParseInt(n, s)
    ELSE IF n \in FloatTypes THEN ParseFloat(s)
    ELSE IF n = "bool" THEN ParseBool(s)
    ELSE ParseString(s)

NotImplemented == "'from' method not implemented for derive(FromEnv)"

RECURSIVE from_env(_, _)
\* Mutant of from_env: the derive generates a from_env that succeeds
from_env_struct_ok(ty, value) ==
    IF ty[1] = "Option"
    THEN LET r == from_env(ty[2], value)
         IN  IF IsOk(r) THEN Ok(<<"Some", r[2]>>) ELSE r
    ELSE IF ty[1] = "Masked"
    THEN LET r == from_env(ty[2], value)
         IN  IF IsOk(r) THEN Ok(<<"Masked", r[2]>>) ELSE r
    ELSE IF ty[1] = "Struct" THEN Ok(<<"struct", <<>>>>)
    ELSE parse(ty[1], value)

\* FromEnv::from_env for each implementer
from_env(ty, value) ==
    IF ty[1] = "Option"
    THEN LET r == from_env(ty[2], value)
         IN  IF IsOk(r) THEN Ok(<<"Some", r[2]>>) ELSE r
    ELSE IF ty[1] = "Masked"
    THEN LET r == from_env(ty[2], value)
         IN  IF IsOk(r) THEN Ok(<<"Masked", r[2]>>) ELSE r
    ELSE IF ty[1] = "Struct" THEN Err(Other(NotImplemented))
    ELSE parse(ty[1], value)

\* ------------------------------------------------------------ key derivation
RECURSIVE convert_ident(_)
\* __convert_ident: ident.flat_map(|ch| ch.to_uppercase())
convert_ident(s) ==
    IF s = <<>> THEN <<>> ELSE to_uppercase(s[1]) \o convert_ident(Tail(s))

\* Mutant of __join_idents: the enclosing key is joined as it is, not upper-cased
join_idents_raw_prefix(ident, postfix) ==
    IF ident = <<>> THEN convert_ident(postfix)
    ELSE ident \o <<"_">> \o convert_ident(postfix)

\* __join_idents
join_idents(ident, postfix) ==
    IF ident = <<>> THEN convert_ident(postfix)
    ELSE convert_ident(ident) \o <<"_">> \o convert_ident(postfix)

\* ------------------------------------------------- the composites declared
\* struct EnvField, as handle_field fills it from a field and its attributes
EnvField(ident, ty, var_or_file, name) ==
    [ident |-> ident, ty |-> ty, var_or_file |-> var_or_file, name |-> name]
NoName == <<"None">>
Name(s) == <<"Some", s>>

NestedConfig == <<"NestedConfig">>
TestConfig == <<"TestConfig">>
AuxConfig == <<"AuxConfig">>
Deep(n) == <<"Deep", n>>

IdentHost == <<"h", "o", "s", "t">>
IdentAddress == <<"a", "d", "d", "r", "e", "s", "s">>
IdentId == <<"i", "d">>
IdentName == <<"n", "a", "m", "e">>
IdentGuestId == <<"g", "u", "e", "s", "t", "_", "i", "d">>
IdentNested == <<"n", "e", "s", "t", "e", "d">>
IdentPort == <<"p", "o", "r", "t">>
IdentToken == <<"t", "o", "k", "e", "n">>
IdentLevel(n) == <<"l", DigitChars[n + 1]>>
LitTestName == <<"T", "E", "S", "T", "_", "N", "A", "M", "E">>
LitApiToken == <<"A", "p", "i", "_", "T", "o", "k", "e", "n">>

\* The structs FromEnv is derived for: the two of the crate's tests, a composite
\* AuxConfig whose fields are all optional, one of them named by a mixed-case
\* literal, and the chain Deep(n) { l<n>: Deep(n-1) } over Deep(0) = AuxConfig.
Fields(s) ==
    IF s = NestedConfig
    THEN << EnvField(IdentHost, Scalar("String"), FALSE, NoName),
            EnvField(IdentAddress, Option(Masked(Scalar("String"))), FALSE, NoName) >>
    ELSE IF s = TestConfig
    THEN << EnvField(IdentId, Scalar("i32"), FALSE, NoName),
            EnvField(IdentName, Scalar("String"), TRUE, Name(LitTestName)),
            EnvField(IdentGuestId, Option(Scalar("u64")), FALSE, NoName),
            EnvField(IdentNested, Struct(NestedConfig), FALSE, NoName) >>
    ELSE IF s = AuxConfig
    THEN << EnvField(IdentPort, Option(Scalar("u8")), FALSE, NoName),
            EnvField(IdentToken, Option(Masked(Scalar("String"))), TRUE, Name(LitApiToken)) >>
    ELSE << EnvField(IdentLevel(s[2]),
                     Struct(IF s[2] = 1 THEN AuxConfig ELSE Deep(s[2] - 1)),
                     FALSE, NoName) >>

\* ------------------------------------------------------------- the loaders
\* Mutant of the default load: a value that is not Unicode is taken as absent
default_load_lossy(ty, ident, e) ==
    LET v == env_var(e, ident)
    IN  [res |-> IF IsErr(v) THEN Err(EnvError(ident, NotPresent))
                 ELSE convert(from_env(ty, v[2]), ident),
         log |-> <<Lookup(ident)>>]

\* FromEnv::load, the trait's default
default_load(ty, ident, e) ==
    LET v == convert(env_var(e, ident), ident)
    IN  [res |-> IF IsErr(v) THEN v ELSE convert(from_env(ty, v[2]), ident),
         log |-> <<Lookup(ident)>>]

\* Mutant of the default load_or_file: the file named by KEY_FILE, when there is
\* one, is read first and wins over KEY
default_load_or_file_eager(ty, ident, e, f) ==
    LET v == env_var(e, ident)
        name == FileKey(ident)
        path == env_var(e, name)
        str == read_to_string(f, path[2])
    IN  IF IsOk(path)
        THEN [res |-> IF IsErr(str) THEN Err(EnvError(name, Other(str[2])))
                      ELSE convert(from_env(ty, str[2]), ident),
              log |-> <<Lookup(name), Read(path[2])>>]
        ELSE [res |-> IF IsOk(v) THEN convert(from_env(ty, v[2]), ident)
                      ELSE Err(EnvError(ident, Into(v[2]))),
              log |-> <<Lookup(name), Lookup(ident)>>]

\* FromEnv::load_or_file, the trait's default
default_load_or_file(ty, ident, e, f) ==
    LET v == env_var(e, ident)
        name == FileKey(ident)
        path == convert(env_var(e, name), name)
        str == read_to_string(f, path[2])
    IN  IF IsOk(v)
        THEN [res |-> convert(from_env(ty, v[2]), ident), log |-> <<Lookup(ident)>>]
        ELSE IF v[2] = VarNotPresent
        THEN IF IsErr(path)
             THEN [res |-> path, log |-> <<Lookup(ident), Lookup(name)>>]
             ELSE [res |-> IF IsErr(str) THEN Err(EnvError(name, Other(str[2])))
                           ELSE convert(from_env(ty, str[2]), ident),
                   log |-> <<Lookup(ident), Lookup(name), Read(path[2])>>]
        ELSE [res |-> Err(EnvError(ident, Into(v[2]))), log |-> <<Lookup(ident)>>]

\* Mutant of Option<T>::load: a value the parser rejects is dropped (.ok())
option_load_silent(ty, ident, e) ==
    LET v == env_var(e, ident)
        r == from_env(ty, v[2])
    IN  [res |-> IF IsOk(v) THEN (IF IsOk(r) THEN r ELSE Ok(<<"None">>))
                 ELSE IF v[2] = VarNotPresent THEN Ok(<<"None">>)
                 ELSE Err(EnvError(ident, Into(v[2]))),
         log |-> <<Lookup(ident)>>]

\* <Option<T> as FromEnv>::load
option_load(ty, ident, e) ==
    LET v == env_var(e, ident)
    IN  [res |-> IF IsOk(v) THEN convert(from_env(ty, v[2]), ident)
                 ELSE IF v[2] = VarNotPresent THEN Ok(<<"None">>)
                 ELSE Err(EnvError(ident, Into(v[2]))),
         log |-> <<Lookup(ident)>>]

\* <Option<T> as FromEnv>::load_or_file
option_load_or_file(ty, ident, e, f) ==
    LET v == env_var(e, ident)
        name == FileKey(ident)
        path == env_var(e, name)
        str == read_to_string(f, path[2])
    IN  IF IsOk(v)
        THEN [res |-> convert(from_env(ty, v[2]), ident), log |-> <<Lookup(ident)>>]
        ELSE IF v[2] = VarNotPresent
        THEN IF IsOk(path)
             THEN [res |-> IF IsErr(str) THEN Err(EnvError(ident, Other(str[2])))
                           ELSE convert(from_env(ty, str[2]), ident),
                   log |-> <<Lookup(ident), Lookup(name), Read(path[2])>>]
             ELSE [res |-> IF path[2] = VarNotPresent THEN Ok(<<"None">>)
                           ELSE Err(EnvError(ident, Into(path[2]))),
                   log |-> <<Lookup(ident), Lookup(name)>>]
        ELSE [res |-> Err(EnvError(ident, Into(v[2]))), log |-> <<Lookup(ident)>>]

\* Mutant of the name_quote: an explicit name is joined to the enclosing key like
\* an identifier
field_key_joined(fld, ident) ==
    IF fld.name # NoName THEN join_idents(ident, fld.name[2])
    ELSE join_idents(ident, fld.ident)

\* derive_env_config's name_quote: the key a field is loaded under, given the
\* key `ident` its composite is loaded under
field_key(fld, ident) ==
    IF fld.name # NoName THEN fld.name[2] ELSE join_idents(ident, fld.ident)

RECURSIVE load(_, _, _, _)
RECURSIVE load_or_file(_, _, _, _)
RECURSIVE load_fields(_, _, _, _, _, _)

RECURSIVE load_fields_continue(_, _, _, _, _, _)
\* Mutant of the generated struct expression: every field is loaded, and the
\* error of the last failing one is returned
load_fields_continue(fields, i, ident, e, f, acc) ==
    IF i > Len(fields)
    THEN [res |-> IF IsErr(acc.err) THEN acc.err ELSE Ok(<<"struct", acc.vals>>),
          log |-> acc.log]
    ELSE LET fld == fields[i]
             key == field_key(fld, ident)
             r == IF fld.var_or_file THEN load_or_file(fld.ty, key, e, f)
                  ELSE load(fld.ty, key, e, f)
             seen == IF "err" \in DOMAIN acc THEN acc.err ELSE Ok(<<>>)
         IN  load_fields_continue(fields, i + 1, ident, e, f,
                 [vals |-> IF IsOk(r.res) THEN Append(acc.vals, r.res[2]) ELSE acc.vals,
                  log |-> acc.log \o r.log,
                  err |-> IF IsErr(r.res) THEN r.res ELSE seen])

\* The struct expression the derive generates, Ok(S { f1: <load f1>?, ... }): the
\* fields from the i-th on, in declaration order, each `?` returning its error.
load_fields(fields, i, ident, e, f, acc) ==
    IF i > Len(fields) THEN [res |-> Ok(<<"struct", acc.vals>>), log |-> acc.log]
    ELSE LET fld == fields[i]
             key == field_key(fld, ident)
             r == IF fld.var_or_file THEN load_or_file(fld.ty, key, e, f)
                  ELSE load(fld.ty, key, e, f)
         IN  IF IsErr(r.res) THEN [res |-> r.res, log |-> acc.log \o r.log]
             ELSE load_fields(fields, i + 1, ident, e, f,
                              [vals |-> Append(acc.vals, r.res[2]),
                               log |-> acc.log \o r.log])

\* The load the derive generates for struct ty
derive_load(ty, ident, e, f) ==
    load_fields(Fields(ty[2]), 1, ident, e, f, [vals |-> <<>>, log |-> <<>>])

\* <ty as FromEnv>::load(ident): Option<T> and the derived structs override the
\* default; the scalars and Masked<T> do not.
load(ty, ident, e, f) ==
    IF ty[1] = "Option" THEN option_load(ty, ident, e)
    ELSE IF ty[1] = "Struct" THEN derive_load(ty, ident, e, f)
    ELSE default_load(ty, ident, e)

\* <ty as FromEnv>::load_or_file(ident): only Option<T> overrides the default.
load_or_file(ty, ident, e, f) ==
    IF ty[1] = "Option" THEN option_load_or_file(ty, ident, e, f)
    ELSE default_load_or_file(ty, ident, e, f)

\* --------------------------------------------------------- the state machine
\* env: the process environment, a function from the names of the variables set
\*      to <<"text", value>> or <<"raw", bytes>> (a value that is not Unicode);
\* fs:  the files, a function from the paths that exist to <<"utf8", contents>>
\*      or <<"binary", bytes>>;
\* pc:  "setup" while the caller prepares the environment, "loaded" while it
\*      holds the outcome of a load;
\* call, out: the load made and what it returned (its Result and its I/O log).
NoCall == [op |-> "none", ty |-> <<>>, ident |-> <<>>]
NoOut == [res |-> <<"none">>, log |-> <<>>]

Empty == [x \in {} |-> <<>>]
Set(fn, k, v) == [x \in DOMAIN fn \cup {k} |-> IF x = k THEN v ELSE fn[x]]
Remove(fn, k) == [x \in DOMAIN fn \ {k} |-> fn[x]]

RawBytes == <<"0xFF">>

\* std::env::set_var(k, v)
SetVar(k, v) ==
    /\ pc = "setup"
    /\ env' = Set(env, k, <<"text", v>>)
    /\ UNCHANGED <<fs, pc, call, out>>

\* std::env::set_var(k, <an OsString that is not valid Unicode>)
SetVarRaw(k) ==
    /\ pc = "setup"
    /\ env' = Set(env, k, <<"raw", RawBytes>>)
    /\ UNCHANGED <<fs, pc, call, out>>

\* std::env::remove_var(k)
RemoveVar(k) ==
    /\ pc = "setup"
    /\ k \in DOMAIN env
    /\ env' = Remove(env, k)
    /\ UNCHANGED <<fs, pc, call, out>>

\* A file is written with text c, written with bytes that are not UTF-8, removed.
WriteFile(p, c) ==
    /\ pc = "setup"
    /\ fs' = Set(fs, p, <<"utf8", c>>)
    /\ UNCHANGED <<env, pc, call, out>>

WriteBinary(p) ==
    /\ pc = "setup"
    /\ fs' = Set(fs, p, <<"binary", RawBytes>>)
    /\ UNCHANGED <<env, pc, call, out>>

RemoveFile(p) ==
    /\ pc = "setup"
    /\ p \in DOMAIN fs
    /\ fs' = Remove(fs, p)
    /\ UNCHANGED <<env, pc, call, out>>

\* <ty as FromEnv>::load(ident)
Load(ty, ident) ==
    /\ pc = "setup"
    /\ pc' = "loaded"
    /\ call' = [op |-> "load", ty |-> ty, ident |-> ident]
    /\ out' = load(ty, ident, env, fs)
    /\ UNCHANGED <<env, fs>>

\* <ty as FromEnv>::load_or_file(ident)
LoadOrFile(ty, ident) ==
    /\ pc = "setup"
    /\ pc' = "loaded"
    /\ call' = [op |-> "load_or_file", ty |-> ty, ident |-> ident]
    /\ out' = load_or_file(ty, ident, env, fs)
    /\ UNCHANGED <<env, fs>>

\* The caller drops the outcome and goes on.
Drop ==
    /\ pc = "loaded"
    /\ pc' = "setup"
    /\ call' = NoCall
    /\ out' = NoOut
    /\ UNCHANGED <<env, fs>>

\* ---- Spec: the protocol on one key K, with every leaf type and the wrappers
ScalarNames == IntTypes \cup FloatTypes \cup {"bool", "String"}
AllScalars == {Scalar(n) : n \in ScalarNames}
WrapBase == {Scalar("i8"), Scalar("f64"), Scalar("bool"), Scalar("String"),
             Struct(NestedConfig)}

RECURSIVE Wrapped(_)
\* The types of WrapBase under at most d wrappers
Wrapped(d) ==
    IF d = 0 THEN WrapBase
    ELSE LET S == Wrapped(d - 1)
         IN  S \cup {Option(t) : t \in S} \cup {Masked(t) : t \in S}

LeafTypes == AllScalars \cup Wrapped(MaxWrap)

KeyK == <<"K">>
KeyKFile == <<"K", "_", "F", "I", "L", "E">>
LeafVars == {KeyK, KeyKFile}
PathTxt == <<"t", ".", "t", "x", "t">>
NL == "\n"
LeafTexts == { <<"5">>, <<"-", "5">>, <<"3", "0", "0">>, <<"1", ".", "5">>,
               <<"t", "r", "u", "e">>, <<"5", NL>>, <<"t", "r", "u", "e", NL>>,
               PathTxt }

Init ==
    /\ env = Empty
    /\ fs = Empty
    /\ pc = "setup"
    /\ call = NoCall
    /\ out = NoOut

Next ==
    \/ \E k \in LeafVars, v \in LeafTexts : SetVar(k, v)
    \/ \E k \in LeafVars : SetVarRaw(k)
    \/ \E k \in LeafVars : RemoveVar(k)
    \/ \E c \in LeafTexts : WriteFile(PathTxt, c)
    \/ WriteBinary(PathTxt)
    \/ RemoveFile(PathTxt)
    \/ \E ty \in LeafTypes : Load(ty, KeyK)
    \/ \E ty \in LeafTypes : LoadOrFile(ty, KeyK)
    \/ Drop

Spec == Init /\ [][Next]_vars

\* ---- SpecDerive: the generated loaders, on the variables of the crate's tests
KeyId == <<"I", "D">>
KeyTestName == <<"T", "E", "S", "T", "_", "N", "A", "M", "E">>
KeyTestNameFile == <<"T", "E", "S", "T", "_", "N", "A", "M", "E", "_", "F", "I", "L", "E">>
KeyGuestId == <<"G", "U", "E", "S", "T", "_", "I", "D">>
KeyNested == <<"N", "E", "S", "T", "E", "D">>
KeyNestedHost == <<"N", "E", "S", "T", "E", "D", "_", "H", "O", "S", "T">>
KeyNestedAddress == <<"N", "E", "S", "T", "E", "D", "_", "A", "D", "D", "R", "E", "S", "S">>
DeriveVars == {KeyId, KeyTestName, KeyTestNameFile, KeyGuestId, KeyNested,
               KeyNestedHost, KeyNestedAddress}

PathTestName == <<"t", "e", "s", "t", "_", "n", "a", "m", "e", ".", "t", "x", "t">>
TextTest == <<"t", "e", "s", "t">>
DeriveTexts == { <<"5">>, PathTestName }

RootMixed == <<"D", "sz">>
DeriveIdents == { <<>>, IdentNested, KeyNested, RootMixed }

DeriveTypes ==
    {Struct(TestConfig), Struct(NestedConfig), Struct(AuxConfig)}
    \cup {Struct(Deep(n)) : n \in 1..MaxDepth}
    \cup {Option(Struct(NestedConfig)), Masked(Struct(NestedConfig)),
          Masked(Option(Struct(NestedConfig)))}

InitDerive ==
    /\ env = Empty
    /\ fs = Set(Empty, PathTestName, <<"utf8", TextTest>>)
    /\ pc = "setup"
    /\ call = NoCall
    /\ out = NoOut

NextDerive ==
    \/ \E k \in DeriveVars, v \in DeriveTexts : SetVar(k, v)
    \/ \E k \in DeriveVars : RemoveVar(k)
    \/ \E ty \in DeriveTypes, r \in DeriveIdents : Load(ty, r)
    \/ \E ty \in DeriveTypes, r \in DeriveIdents : LoadOrFile(ty, r)
    \/ Drop

SpecDerive == InitDerive /\ [][NextDerive]_vars

\* ================================================================== claims
Loaded(op) == pc = "loaded" /\ call.op = op
IsUnset(k) == k \notin DOMAIN env
IsText(k) == k \in DOMAIN env /\ env[k][1] = "text"
IsRaw(k) == k \in DOMAIN env /\ env[k][1] = "raw"
Readable(p) == p \in DOMAIN fs /\ fs[p][1] = "utf8"
\* What a loader returns for key k when the parser returned r
Attach(r, k) == IF IsOk(r) THEN Ok(r[2]) ELSE Err([var |-> k, ty |-> r[2]])

\* C1: load(KEY) of a scalar leaf type returns parse(v) when KEY holds the text v
\* and v parses, the error InvalidFormat on KEY when v does not parse, NotPresent
\* on KEY when KEY is unset, and NotUnicode on KEY when KEY holds no Unicode text.
C1_ScalarLoad ==
    (Loaded("load") /\ call.ty \in AllScalars) =>
        /\ IsUnset(KeyK) => out.res = Err([var |-> KeyK, ty |-> <<"NotPresent">>])
        /\ IsRaw(KeyK) =>
               out.res = Err([var |-> KeyK, ty |-> <<"NotUnicode", env[KeyK][2]>>])
        /\ IsText(KeyK) =>
               LET r == parse(call.ty[1], env[KeyK][2])
               IN  IF IsOk(r) THEN out.res = Ok(r[2])
                   ELSE out.res = Err([var |-> KeyK, ty |-> <<"InvalidFormat">>])

\* C1 witness: i8 loaded from K = "300", which does not fit: InvalidFormat on K
C1_Witness ==
    /\ Loaded("load") /\ call.ty = Scalar("i8")
    /\ IsText(KeyK) /\ env[KeyK][2] = <<"3", "0", "0">>
    /\ out.res = Err([var |-> KeyK, ty |-> <<"InvalidFormat">>])

\* C2: in load_or_file(KEY), a KEY holding text wins: the result is the parse of
\* its value, with KEY_FILE not looked up and no file read, whatever KEY_FILE and
\* the files hold; with KEY unset and KEY_FILE naming a readable file of contents
\* c the result is the parse of c, a parse failure being reported on KEY.
C2_Precedence ==
    Loaded("load_or_file") =>
        /\ IsText(KeyK) =>
               /\ out.res = Attach(from_env(call.ty, env[KeyK][2]), KeyK)
               /\ out.log = << <<"var", KeyK>> >>
        /\ (IsUnset(KeyK) /\ IsText(KeyKFile) /\ Readable(env[KeyKFile][2])) =>
               out.res = Attach(from_env(call.ty, fs[env[KeyKFile][2]][2]), KeyK)

\* C2 witness: K = "5" beside K_FILE naming a readable file that holds "300":
\* u8 loads 5 from K after the single lookup of K
C2_Witness ==
    /\ Loaded("load_or_file") /\ call.ty = Scalar("u8")
    /\ IsText(KeyK) /\ env[KeyK][2] = <<"5">>
    /\ IsText(KeyKFile) /\ env[KeyKFile][2] = PathTxt
    /\ Readable(PathTxt) /\ fs[PathTxt][2] = <<"3", "0", "0">>
    /\ out.res = Ok(<<"int", 5>>)
    /\ out.log = << <<"var", KeyK>> >>

\* C10: load_or_file parses the file's contents as read: with KEY unset and
\* KEY_FILE naming a file that holds a valid value followed by a newline, a String
\* receives the contents with the newline and an integer, float or bool fails with
\* InvalidFormat on KEY; so does the optional wrapper's load_or_file.
C10_NoTrim ==
    \A n \in ScalarNames :
        (/\ Loaded("load_or_file")
         /\ call.ty \in {Scalar(n), Option(Scalar(n))}
         /\ IsUnset(KeyK) /\ IsText(KeyKFile) /\ Readable(env[KeyKFile][2])
         /\ LET c == fs[env[KeyKFile][2]][2]
            IN  /\ Len(c) >= 2 /\ c[Len(c)] = NL
                /\ IsOk(parse(n, SubSeq(c, 1, Len(c) - 1)))) =>
            LET c == fs[env[KeyKFile][2]][2]
            IN  IF n = "String"
                THEN out.res = Ok(IF call.ty[1] = "Option" THEN <<"Some", <<"str", c>>>>
                                  ELSE <<"str", c>>)
                ELSE out.res = Err([var |-> KeyK, ty |-> <<"InvalidFormat">>])

\* C10 witness: bool loaded from a file holding "true" and a newline fails
C10_Witness ==
    /\ Loaded("load_or_file") /\ call.ty = Scalar("bool")
    /\ IsUnset(KeyK) /\ IsText(KeyKFile) /\ env[KeyKFile][2] = PathTxt
    /\ Readable(PathTxt) /\ fs[PathTxt][2] = <<"t", "r", "u", "e", NL>>
    /\ out.res = Err([var |-> KeyK, ty |-> <<"InvalidFormat">>])

RECURSIVE Core(_)
\* The type under the wrappers of t
Core(t) == IF t[1] \in {"Option", "Masked"} THEN Core(t[2]) ELSE t

\* What Option<T> returns for key k when T's parser returned r
Present(r, k) == IF IsOk(r) THEN Ok(<<"Some", r[2]>>) ELSE Err([var |-> k, ty |-> r[2]])

\* The part of C4 that is not about the cause of a rejected value: an unset KEY
\* (and, for load_or_file, an unset KEY_FILE too) is the one case that gives the
\* empty result, and a value that is present gives the inner parser's result:
\* Some of its value, or its error on KEY.
C4_Absence ==
    (pc = "loaded" /\ call.ty[1] = "Option") =>
        /\ (call.op = "load" /\ IsUnset(KeyK)) => out.res = Ok(<<"None">>)
        /\ (call.op = "load_or_file" /\ IsUnset(KeyK) /\ IsUnset(KeyKFile)) =>
               out.res = Ok(<<"None">>)
        /\ out.res = Ok(<<"None">>) =>
               IsUnset(KeyK) /\ (call.op = "load_or_file" => IsUnset(KeyKFile))
        /\ IsText(KeyK) => out.res = Present(from_env(call.ty[2], env[KeyK][2]), KeyK)
        /\ (/\ call.op = "load_or_file" /\ IsUnset(KeyK)
            /\ IsText(KeyKFile) /\ Readable(env[KeyKFile][2])) =>
               out.res = Present(from_env(call.ty[2], fs[env[KeyKFile][2]][2]), KeyK)

\* C4 (as amended): for Option<T> over any T, absence is the only cause turned
\* into the empty result, a present value that parses is Some, and a present value
\* the inner parser rejects gives that parser's error on KEY, never the empty
\* result: InvalidFormat when T is (a wrapper of) a scalar, Other when T is (a
\* wrapper of) a derived composite, whose from_env rejects every text.
C4_OptionAbsence ==
    /\ C4_Absence
    /\ (/\ pc = "loaded" /\ call.ty[1] = "Option" /\ IsText(KeyK)
        /\ IsErr(from_env(call.ty[2], env[KeyK][2]))) =>
           IF Core(call.ty)[1] = "Struct"
           THEN out.res = Err([var |-> KeyK, ty |-> <<"Other", NotImplemented>>])
           ELSE out.res = Err([var |-> KeyK, ty |-> <<"InvalidFormat">>])

\* C4 witness: Option<i8> loaded from K = "300": InvalidFormat on K, not None
C4_Witness ==
    /\ Loaded("load") /\ call.ty = Option(Scalar("i8"))
    /\ IsText(KeyK) /\ env[KeyK][2] = <<"3", "0", "0">>
    /\ out.res = Err([var |-> KeyK, ty |-> <<"InvalidFormat">>])

\* C4 as stated: ... and a present value that the inner parser rejects gives the
\* InvalidFormat error, for any inner type T.
C4_Original ==
    /\ C4_Absence
    /\ (/\ pc = "loaded" /\ call.ty[1] = "Option" /\ IsText(KeyK)
        /\ IsErr(from_env(call.ty[2], env[KeyK][2]))) =>
           out.res = Err([var |-> KeyK, ty |-> <<"InvalidFormat">>])

\* C6: in load_or_file(KEY), of a scalar or of the optional wrapper, a failure at
\* the secondary key (unset, for a scalar; not Unicode; the file unreadable) is
\* reported on KEY_FILE, a parse failure of the direct value or of the file's
\* contents on KEY, and a KEY that is not Unicode on KEY without KEY_FILE being
\* looked up.
C6_Attribution ==
    (/\ Loaded("load_or_file")
     /\ (call.ty \in AllScalars \/ call.ty[1] = "Option")
     /\ IsErr(out.res)) =>
        /\ (IsUnset(KeyK) /\ IsUnset(KeyKFile)) =>
               out.res = Err([var |-> KeyKFile, ty |-> <<"NotPresent">>])
        /\ (IsUnset(KeyK) /\ IsRaw(KeyKFile)) =>
               out.res = Err([var |-> KeyKFile, ty |-> <<"NotUnicode", env[KeyKFile][2]>>])
        /\ (IsUnset(KeyK) /\ IsText(KeyKFile) /\ ~Readable(env[KeyKFile][2])) =>
               out.res[2].var = KeyKFile /\ out.res[2].ty[1] = "Other"
        /\ (IsUnset(KeyK) /\ IsText(KeyKFile) /\ Readable(env[KeyKFile][2])) =>
               out.res[2].var = KeyK
        /\ IsText(KeyK) => out.res[2].var = KeyK
        /\ IsRaw(KeyK) =>
               /\ out.res = Err([var |-> KeyK, ty |-> <<"NotUnicode", env[KeyK][2]>>])
               /\ out.log = << <<"var", KeyK>> >>

\* C7: Masked<T>::load(key) and Masked<T>::load_or_file(key) have the outcome of
\* T::load(key) and T::load_or_file(key): the same value, wrapped in Masked, or
\* the same error.
C7_MaskedTransparent ==
    (pc = "loaded" /\ call.ty[1] = "Masked") =>
        LET inner == IF call.op = "load" THEN load(call.ty[2], call.ident, env, fs)
                     ELSE load_or_file(call.ty[2], call.ident, env, fs)
        IN  out.res = IF IsOk(inner.res) THEN Ok(<<"Masked", inner.res[2]>>)
                      ELSE inner.res

\* ---- the claims about the generated load, under SpecDerive
\* The upper case of the enclosing keys and field identifiers used, spelled out.
UPPER(s) ==
    CASE s = <<>> -> <<>>
      [] s = IdentNested -> <<"N", "E", "S", "T", "E", "D">>
      [] s = KeyNested -> <<"N", "E", "S", "T", "E", "D">>
      [] s = RootMixed -> <<"D", "S", "S">>
      [] s = IdentHost -> <<"H", "O", "S", "T">>
      [] s = IdentAddress -> <<"A", "D", "D", "R", "E", "S", "S">>
      [] s = IdentId -> <<"I", "D">>
      [] s = IdentName -> <<"N", "A", "M", "E">>
      [] s = IdentGuestId -> <<"G", "U", "E", "S", "T", "_", "I", "D">>
      [] s = IdentPort -> <<"P", "O", "R", "T">>
      [] s = IdentToken -> <<"T", "O", "K", "E", "N">>

\* The key C3 gives the field fld of a composite loaded under key r
ExpectedKey(fld, r) ==
    IF fld.name # NoName THEN fld.name[2]
    ELSE IF r = <<>> THEN UPPER(fld.ident)
    ELSE UPPER(r) \o <<"_">> \o UPPER(fld.ident)

KeyApiTokenFile == <<"A", "p", "i", "_", "T", "o", "k", "e", "n", "_", "F", "I", "L", "E">>
IsPrimary(entry) == entry[1] = "var" /\ entry[2] \notin {KeyTestNameFile, KeyApiTokenFile}
\* The keys of the fields looked up, in order: the log without the file reads and
\* the lookups of the secondary keys
PrimaryKeys(log) == LET ks == SelectSeq(log, IsPrimary) IN [i \in 1..Len(ks) |-> ks[i][2]]

\* The fields of struct s before its first field of composite type
LeafPrefix(s) ==
    LET fl == Fields(s)
        n == IF \E i \in 1..Len(fl) : fl[i].ty[1] = "Struct"
             THEN (CHOOSE i \in 1..Len(fl) :
                      fl[i].ty[1] = "Struct" /\ \A j \in 1..(i - 1) : fl[j].ty[1] # "Struct") - 1
             ELSE Len(fl)
    IN  SubSeq(fl, 1, n)

\* C3: the generated load(key) looks a field without an explicit name up under
\* UPPER(identifier) when key is empty and under UPPER(key)_UPPER(identifier)
\* otherwise, and a field with name = <literal> under that literal exactly, not
\* joined and not upper-cased, at any nesting depth.
C3_KeyDerivation ==
    (Loaded("load") /\ call.ty[1] = "Struct") =>
        LET keys == PrimaryKeys(out.log)
            here == LeafPrefix(call.ty[2])
        IN  /\ \A i \in 1..Len(here) :
                   i <= Len(keys) => keys[i] = ExpectedKey(here[i], call.ident)
            /\ (call.ty = Struct(TestConfig) /\ call.ident = <<>> /\ Len(keys) >= 4) =>
                   keys[4] = KeyNestedHost
            /\ call.ty[2][1] = "Deep" => (Len(keys) = 2 /\ keys[2] = LitApiToken)

\* C3 witness: TestConfig loaded under the empty key, all of its fields found
C3_Witness ==
    /\ Loaded("load") /\ call.ty = Struct(TestConfig) /\ call.ident = <<>>
    /\ IsOk(out.res)
    /\ PrimaryKeys(out.log) =
           <<KeyId, KeyTestName, KeyGuestId, KeyNestedHost, KeyNestedAddress>>

RECURSIVE Segments(_)
\* "L<n>_L<n-1>_ ... L1_", the upper-cased identifiers down the chain Deep(n)
Segments(n) ==
    IF n = 0 THEN <<>> ELSE <<"L", DigitChars[n + 1], "_">> \o Segments(n - 1)

\* C8: nesting composes the key paths transitively: load(r) of the chain Deep(n),
\* whose fields l<n>, ..., l1 lead to the leaf field port, looks the leaf up under
\* UPPER(r)_L<n>_..._L1_PORT (without the UPPER(r)_ when r is empty), for every
\* depth; the prefix, upper-cased again at each level, does not change.
C8_Transitive ==
    \A n \in 1..MaxDepth :
        (Loaded("load") /\ call.ty = Struct(Deep(n))) =>
            out.log[1] = <<"var",
                           (IF call.ident = <<>> THEN <<>>
                            ELSE UPPER(call.ident) \o <<"_">>)
                           \o Segments(n) \o <<"P", "O", "R", "T">> >>

\* C8 witness: Deep(3) loaded under "nested" looks up NESTED_L3_L2_L1_PORT
C8_Witness ==
    /\ Loaded("load") /\ call.ty = Struct(Deep(3)) /\ call.ident = IdentNested
    /\ out.log[1] = <<"var", <<"N", "E", "S", "T", "E", "D", "_", "L", "3", "_",
                               "L", "2", "_", "L", "1", "_", "P", "O", "R", "T">> >>
    /\ IsOk(out.res)

\* What the i-th field of struct s, loaded on its own under the key the composite
\* loaded under r gives it, returns.
FieldAlone(s, r, i) ==
    LET fld == Fields(s)[i]
    IN  IF fld.var_or_file THEN load_or_file(fld.ty, field_key(fld, r), env, fs)
        ELSE load(fld.ty, field_key(fld, r), env, fs)

RECURSIVE LogsUpTo(_, _, _)
LogsUpTo(s, r, j) ==
    IF j = 0 THEN <<>> ELSE LogsUpTo(s, r, j - 1) \o FieldAlone(s, r, j).log

\* C5: the generated load attempts the fields in declaration order; when fields
\* would fail it returns the error of the earliest of them, having looked up and
\* read nothing for the fields after it, and no instance; it returns an instance,
\* holding every field's value, only when every field loaded.
C5_FirstFailure ==
    (Loaded("load") /\ call.ty[1] = "Struct") =>
        LET s == call.ty[2]
            r == call.ident
            n == Len(Fields(s))
            failing == {i \in 1..n : IsErr(FieldAlone(s, r, i).res)}
        IN  IF failing = {}
            THEN /\ out.res = Ok(<<"struct", [i \in 1..n |-> FieldAlone(s, r, i).res[2]]>>)
                 /\ out.log = LogsUpTo(s, r, n)
            ELSE LET j == CHOOSE i \in failing : \A k \in failing : i <= k
                 IN  /\ out.res = FieldAlone(s, r, j).res
                     /\ out.log = LogsUpTo(s, r, j)

\* C5 witness: TestConfig with ID unparseable, TEST_NAME unset and NESTED_HOST
\* unset: the error is ID's, and ID is all that was looked up
C5_Witness ==
    /\ Loaded("load") /\ call.ty = Struct(TestConfig) /\ call.ident = <<>>
    /\ IsText(KeyId) /\ env[KeyId][2] = PathTestName
    /\ IsUnset(KeyTestName) /\ IsUnset(KeyTestNameFile) /\ IsUnset(KeyNestedHost)
    /\ out.res = Err([var |-> KeyId, ty |-> <<"InvalidFormat">>])
    /\ out.log = << <<"var", KeyId>> >>

====
